---- MODULE Spec2Model ----
(***************************************************************************)
(* Bright Futures: the FastAPI application of src/app.py as a state        *)
(* machine.  A request enters the no-cache middleware, passes the CORS     *)
(* middleware and the router, is answered by one handler (or by the 404    *)
(* exception handler), and leaves through the no-cache middleware again.   *)
(* The disk and the clock belong to the environment and change between     *)
(* the steps of the requests; the requests in flight are a bag.            *)
(***************************************************************************)
EXTENDS Integers, Sequences, FiniteSets, Bags, TLC

VARIABLES environ, ENV, DEBUG, utcOffset, disk, inflight

vars == <<environ, ENV, DEBUG, utcOffset, disk, inflight>>

(***************************************************************************)
(* Bounds of the model and constants of the program.                       *)
(***************************************************************************)
NReq == 2
MaxTicks == 2
TicksPerSecond == 2
MaxNameLen == 200
MaxMessageLen == 500

StartClock == 1000000 * TicksPerSecond

\* The instants, in ticks, at which the clock is read.
Clock == StartClock..(StartClock + MaxTicks)

(***************************************************************************)
(* Strings.  A character string is a sequence of one-character strings     *)
(* where the code looks at its characters (ENV), and a record of its       *)
(* length and its text where the code only measures and copies it.         *)
(***************************************************************************)
UpperToLower ==
  [c \in {"P", "R", "O", "D", "U", "C", "T", "I", "N"} |->
     CASE c = "P" -> "p" [] c = "R" -> "r" [] c = "O" -> "o" [] c = "D" -> "d"
       [] c = "U" -> "u" [] c = "C" -> "c" [] c = "T" -> "t" [] c = "I" -> "i"
       [] c = "N" -> "n"]

LowerChar(c) == IF c \in DOMAIN UpperToLower THEN UpperToLower[c] ELSE c

Lower(s) == [i \in 1..Len(s) |-> LowerChar(s[i])]

Production == <<"p", "r", "o", "d", "u", "c", "t", "i", "o", "n">>
Development == <<"d", "e", "v", "e", "l", "o", "p", "m", "e", "n", "t">>

Unset == [set |-> FALSE, val |-> <<>>]
SetTo(s) == [set |-> TRUE, val |-> s]

EnvironValues ==
  { Unset,
    SetTo(Production),
    SetTo(<<"P", "R", "O", "D", "U", "C", "T", "I", "O", "N">>),
    SetTo(<<"P", "r", "o", "d", "u", "c", "t", "i", "o", "n">>),
    SetTo(<<"p", "r", "o", "d">>) }

EnvironGet(e, default) == IF e.set THEN e.val ELSE default

ReadENV(e) == Lower(EnvironGet(e, Development))

ComputeDEBUG(env) == env # Production

Text(n, t) == [kind |-> "str", len |-> n, text |-> t]
None == [kind |-> "null", len |-> 0, text |-> ""]
Absent == [kind |-> "missing", len |-> 0, text |-> ""]
Anonymous == Text(9, "Anonymous")
EmptyText == Text(0, "")

(***************************************************************************)
(* Amounts of a JSON body: a float is a finite integer value, NaN or an    *)
(* infinity; a string may spell a number; the other amounts are no number  *)
(* at all.                                                                 *)
(***************************************************************************)
Num(v) == [kind |-> "num", val |-> v]
NumericString(v) == [kind |-> "numstr", val |-> v]
NaN == [kind |-> "nan", val |-> 0]
PosInf == [kind |-> "inf", val |-> 0]
NegInf == [kind |-> "ninf", val |-> 0]
NoAmount == [kind |-> "missing", val |-> 0]
NullAmount == [kind |-> "null", val |-> 0]
WordAmount == [kind |-> "str", val |-> 0]

IsFloat(a) == a.kind \in {"num", "nan", "inf", "ninf"}

\* The conversion of the float field: a float as it is, a string that spells
\* a number as that number; nothing else converts.
CanFloat(a) == IsFloat(a) \/ a.kind = "numstr"

float(a) == IF a.kind = "numstr" THEN Num(a.val) ELSE a

\* v <= 0 on floats: every comparison with NaN is false.
LeqZero(a) ==
  CASE a.kind = "num" -> a.val <= 0
    [] a.kind = "ninf" -> TRUE
    [] a.kind = "inf" -> FALSE
    [] a.kind = "nan" -> FALSE

IsFinite(a) == a.kind = "num"

(***************************************************************************)
(* Paths: sequences of tokens, "/" being the separator.                    *)
(***************************************************************************)
RootPath == <<"/">>
FaviconPath == <<"/", "favicon.ico">>
DonatePath == <<"/", "donate">>
DocsPath == <<"/", "docs">>
IndexFilePath == <<"/", "index.html">>
AboutPath == <<"/", "about">>
UnknownPath == <<"/", "some", "/", "unknown", "/", "route">>
DonateSlashPath == <<"/", "donate", "/">>
SlashSlashPath == <<"/", "/">>

Paths ==
  { RootPath, FaviconPath, DonatePath, DocsPath, IndexFilePath, AboutPath,
    UnknownPath, DonateSlashPath, SlashSlashPath }

RECURSIVE LStrip(_)
LStrip(p) == IF p # <<>> /\ Head(p) = "/" THEN LStrip(Tail(p)) ELSE p

RECURSIVE RStrip(_)
RStrip(p) ==
  IF p # <<>> /\ p[Len(p)] = "/" THEN RStrip(SubSeq(p, 1, Len(p) - 1)) ELSE p

IsSegment(t) == t # "/"

\* ROOT / path: the path library drops empty segments.
Segments(p) == SelectSeq(p, IsSegment)

INDEX_PATH == <<"index.html">>
ICO_PATH == <<"favicon.ico">>

Files == { INDEX_PATH, ICO_PATH, <<"about">> }

IsAbsolute(p) == p # <<>> /\ Head(p) = "/"

\* Path.exists() of ROOT / p on disk d.  ROOT itself always exists; joining an
\* absolute p leaves ROOT for the root of the file system, where the files of
\* the project are not.
Exists(p, d) ==
  IF IsAbsolute(p) THEN Segments(p) = <<>>
  ELSE Segments(p) = <<>> \/ Segments(p) \in d

(***************************************************************************)
(* Requests.                                                               *)
(***************************************************************************)
Methods == {"GET", "POST", "HEAD", "OPTIONS"}

NoBody == [kind |-> "none", amount |-> NoAmount, name |-> Absent, message |-> Absent]

Json(a, n, m) == [kind |-> "json", amount |-> a, name |-> n, message |-> m]

Amounts ==
  { NoAmount, NullAmount, WordAmount, NumericString(50), Num(-5), Num(0), Num(50), NaN,
    PosInf, NegInf }

Names ==
  { Absent, None, EmptyText, Text(3, "Ada"), Text(MaxNameLen, "name of 200"),
    Text(MaxNameLen + 1, "name of 201") }

Messages ==
  { Absent, None, EmptyText, Text(MaxMessageLen, "message of 500"),
    Text(MaxMessageLen + 1, "message of 501") }

Payloads == { Json(a, n, m) : a \in Amounts, n \in Names, m \in Messages }

Req(m, p, pre, b) == [method |-> m, path |-> p, preflight |-> pre, body |-> b]

Requests ==
  { Req(m, p, FALSE, NoBody) : m \in Methods, p \in Paths }
    \cup { Req("OPTIONS", p, TRUE, NoBody) : p \in Paths }
    \cup { Req("POST", DonatePath, FALSE, b) : b \in Payloads }

ConcRequests ==
  { Req("GET", RootPath, FALSE, NoBody),
    Req("GET", FaviconPath, FALSE, NoBody),
    Req("GET", AboutPath, FALSE, NoBody),
    Req("GET", DocsPath, FALSE, NoBody),
    Req("GET", DonateSlashPath, FALSE, NoBody),
    Req("POST", RootPath, FALSE, NoBody),
    Req("OPTIONS", DonatePath, TRUE, NoBody),
    Req("POST", DonatePath, FALSE, Json(Num(50), Text(3, "Ada"), Absent)),
    Req("POST", DonatePath, FALSE, Json(Num(-5), Absent, Absent)),
    Req("POST", DonatePath, FALSE, Json(NaN, Absent, Absent)) }

(***************************************************************************)
(* Responses.                                                              *)
(***************************************************************************)
NoCacheHeaders ==
  { <<"Cache-Control", "no-store, no-cache, must-revalidate, max-age=0">>,
    <<"Pragma", "no-cache">> }

Response(status, media, body) ==
  [status |-> status, media |-> media, body |-> body, headers |-> {}]

FileBody(f) == [kind |-> "file", file |-> f]
DetailBody(d) == [kind |-> "detail", detail |-> d]
TextBody(t) == [kind |-> "text", text |-> t]
ErrorsBody(fields) == [kind |-> "errors", fields |-> fields]
PageBody(p) == [kind |-> "page", page |-> p]
RedirectBody(p) == [kind |-> "redirect", location |-> p]

FileResponse(f, media) == Response(200, media, FileBody(f))
JSONResponse(status, content) == Response(status, "application/json", content)

NoResponse == Response(0, "", TextBody(""))

\* An exception no handler is registered for, on its way out of the application.
Unhandled(error) == Response(0, "", [kind |-> "exception", error |-> error])

IsUnhandled(resp) == resp.body.kind = "exception"

(***************************************************************************)
(* The routes: FastAPI(...) binds its documentation pages, then the three  *)
(* decorators bind index, favicon and donate.                              *)
(***************************************************************************)
Route(p, ms, name) == [path |-> p, methods |-> ms, endpoint |-> name]

Routes ==
  << Route(<<"/", "openapi.json">>, {"GET", "HEAD"}, "openapi"),
     Route(DocsPath, {"GET", "HEAD"}, "swagger_ui_html"),
     Route(<<"/", "docs", "/", "oauth2-redirect">>, {"GET", "HEAD"}, "swagger_ui_redirect"),
     Route(<<"/", "redoc">>, {"GET", "HEAD"}, "redoc_html"),
     Route(RootPath, {"GET"}, "index"),
     Route(FaviconPath, {"GET"}, "favicon"),
     Route(DonatePath, {"POST"}, "donate") >>

Matches(route, method, path) ==
  IF route.path # path THEN "NONE"
  ELSE IF method \in route.methods THEN "FULL" ELSE "PARTIAL"

FullMatches(method, path) ==
  { i \in DOMAIN Routes : Matches(Routes[i], method, path) = "FULL" }

AnyMatches(path) ==
  { i \in DOMAIN Routes : Routes[i].path = path }

Min(S) == CHOOSE x \in S : \A y \in S : x <= y

\* The trailing slash toggled, as the router does before giving up.
ToggleSlash(path) ==
  IF path[Len(path)] = "/" THEN RStrip(path) ELSE Append(path, "/")

\* Mutant: a path bound for another method counts as not found.
ResolveIgnoringPartial(method, path) ==
  IF FullMatches(method, path) # {}
    THEN Routes[Min(FullMatches(method, path))].endpoint
  ELSE IF path # RootPath /\ AnyMatches(ToggleSlash(path)) # {} THEN "redirect_slashes"
  ELSE "not_found"

\* What the router does with (method, path): the endpoint it calls, or the
\* response it makes itself.
Resolve(method, path) ==
  IF FullMatches(method, path) # {}
    THEN Routes[Min(FullMatches(method, path))].endpoint
  ELSE IF AnyMatches(path) # {} THEN "method_not_allowed"
  ELSE IF path # RootPath /\ AnyMatches(ToggleSlash(path)) # {} THEN "redirect_slashes"
  ELSE "not_found"

(***************************************************************************)
(* Validation of the body of POST /donate (DonatePayload), done by the     *)
(* framework before the handler is called.                                 *)
(***************************************************************************)
\* Mutant: the validator compares with < and lets zero through.
amount_must_be_nonnegative(v) ==
  ~(v.kind = "null" \/ (v.kind = "num" /\ v.val < 0) \/ v.kind = "ninf")

amount_must_be_positive(v) == ~(v.kind = "null" \/ LeqZero(v))

AmountValid(a) == CanFloat(a) /\ amount_must_be_positive(float(a))

TextValid(v, max_length) == v.kind = "str" => v.len <= max_length

Check(name, ok) == IF ok THEN <<>> ELSE <<name>>

\* The fields of the validation error, in the order of the model's fields.
ValidationErrors(body) ==
  IF body.kind = "none" THEN <<"body">>
  ELSE Check("amount", AmountValid(body.amount))
         \o Check("name", TextValid(body.name, MaxNameLen))
         \o Check("message", TextValid(body.message, MaxMessageLen))

\* An optional field left out or null is None in the payload.
Optional(v) == IF v.kind = "str" THEN v ELSE None

DonatePayload(body) ==
  [amount |-> float(body.amount), name |-> Optional(body.name),
   message |-> Optional(body.message)]

(***************************************************************************)
(* The clock.  utcnow() is the UTC wall clock as a naive datetime, here in *)
(* ticks since the epoch; timestamp() reads a naive datetime as local time.*)
(***************************************************************************)
UtcOffsets == {0, 19800}

utcnow(t) == t

timestamp(naive) == naive - utcOffset * TicksPerSecond

\* int() of a float of ticks / TicksPerSecond: truncation towards zero.
int(ticks) ==
  IF ticks >= 0 THEN ticks \div TicksPerSecond ELSE -((-ticks) \div TicksPerSecond)

isoformat(naive) ==
  [sec |-> naive \div TicksPerSecond, frac |-> naive % TicksPerSecond, suffix |-> ""]

PlusZ(iso) == [iso EXCEPT !.suffix = "Z"]

(***************************************************************************)
(* The handlers, as functions of what they read.                           *)
(***************************************************************************)
\* Mutant: the default replaces None only, and an empty string is kept.
OrWhenNone(x, default) == IF x.kind = "str" THEN x ELSE default

\* x or default: None and the empty string are false.
Or(x, default) == IF x.kind = "str" /\ x.len > 0 THEN x ELSE default

\* Mutant: the receipt number is drawn from a count the requests share.
ReceiptIdFromSharedCount(t1) == [prefix |-> "BF-", digits |-> BagCardinality(inflight)]

ReceiptId(t1) == [prefix |-> "BF-", digits |-> int(timestamp(utcnow(t1)))]

Receipt(payload, t1, t2) ==
  [kind |-> "receipt",
   status |-> "ok",
   receipt_id |-> ReceiptId(t1),
   name |-> Or(payload.name, Anonymous),
   amount |-> payload.amount,
   message |-> Or(payload.message, EmptyText),
   timestamp |-> PlusZ(isoformat(utcnow(t2)))]

\* JSONResponse renders with allow_nan=False: NaN and the infinities raise.
Renders(content) == IsFinite(content.amount)

donate(payload, t1, t2) ==
  IF Renders(Receipt(payload, t1, t2))
    THEN JSONResponse(200, Receipt(payload, t1, t2))
    ELSE Unhandled("ValueError")

\* Mutant: the fallback joins the path to ROOT with its leading slash.
spa_fallback_unstripped(path, d) ==
  IF Exists(path, d)
    THEN JSONResponse(404, DetailBody("Not Found"))
  ELSE IF Exists(INDEX_PATH, d)
    THEN FileResponse(INDEX_PATH, "text/html")
  ELSE JSONResponse(500, DetailBody("index.html not found"))

spa_fallback(path, d) ==
  IF Exists(LStrip(path), d)
    THEN JSONResponse(404, DetailBody("Not Found"))
  ELSE IF Exists(INDEX_PATH, d)
    THEN FileResponse(INDEX_PATH, "text/html")
  ELSE JSONResponse(500, DetailBody("index.html not found"))

\* Mutant: the fallback is registered for the 500 of the handlers as well.
StatusHandlersWith500 == {404, 500}

\* The status codes app.exception_handler registers a handler for.
StatusHandlers == {404}

\* An HTTPException on its way out: the handler registered for its status
\* code, or the framework's JSON rendering of it.
HTTPException(status, detail, path, d) ==
  IF status \in StatusHandlers
    THEN spa_fallback(path, d)
    ELSE JSONResponse(status, DetailBody(detail))

index(path, d) ==
  IF ~Exists(INDEX_PATH, d)
    THEN HTTPException(500, "index.html not found on server", path, d)
    ELSE FileResponse(INDEX_PATH, "text/html")

favicon(path, d) ==
  IF Exists(ICO_PATH, d)
    THEN FileResponse(ICO_PATH, "image/x-icon")
    ELSE HTTPException(404, "Not Found", path, d)

no_cache_middleware(response) ==
  IF DEBUG THEN [response EXCEPT !.headers = @ \cup NoCacheHeaders] ELSE response

\* What a handler saw of the disk: the files it asked for, with the answers.
Saw(p, d) == {<<Segments(p), Exists(p, d)>>}

FallbackSaw(path, d) ==
  Saw(LStrip(path), d) \cup (IF Exists(LStrip(path), d) THEN {} ELSE Saw(INDEX_PATH, d))

(***************************************************************************)
(* The requests in flight.  stage: "recv" (inside the no-cache middleware, *)
(* waiting for the application), then "inner" (the application has         *)
(* answered) or "raised" (it has raised), then "sent".  saw and reads      *)
(* record what the handler read of the disk and of the clock.              *)
(***************************************************************************)
Received(r) == [stage |-> "recv", req |-> r, saw |-> {}, reads |-> <<>>, resp |-> NoResponse]

Answered(q, resp, saw, reads) ==
  [q EXCEPT !.stage = IF IsUnhandled(resp) THEN "raised" ELSE "inner",
            !.resp = resp, !.saw = saw, !.reads = reads]

InFlight == BagToSet(inflight)

Startup(environs, offsets) ==
  /\ environ \in environs
  /\ ENV = ReadENV(environ)
  /\ DEBUG = ComputeDEBUG(ENV)
  /\ utcOffset \in offsets
  /\ disk \in SUBSET Files
  /\ inflight = EmptyBag

Init == Startup(EnvironValues, UtcOffsets)

InitConc == Startup({Unset}, {0})

Process == <<environ, ENV, DEBUG, utcOffset>>

\* Where the request goes: the CORS middleware answers a preflight itself.
Target(r) ==
  IF r.method = "OPTIONS" /\ r.preflight THEN "preflight" ELSE Resolve(r.method, r.path)

Becomes(q, q2) == inflight' = (inflight (-) SetToBag({q})) (+) SetToBag({q2})

Receive(r, limit) ==
  /\ BagCardinality(inflight) < limit
  /\ inflight' = inflight (+) SetToBag({Received(r)})
  /\ UNCHANGED <<Process, disk>>

At(q, target) == q.stage = "recv" /\ Target(q.req) = target

Preflight(q) ==
  /\ At(q, "preflight")
  /\ Becomes(q, Answered(q, Response(200, "text/plain", TextBody("OK")), {}, <<>>))
  /\ UNCHANGED <<Process, disk>>

Docs(q) ==
  /\ q.stage = "recv"
  /\ Target(q.req) \in {"openapi", "swagger_ui_html", "swagger_ui_redirect", "redoc_html"}
  /\ Becomes(q, Answered(q, Response(200, "text/html", PageBody(Target(q.req))), {}, <<>>))
  /\ UNCHANGED <<Process, disk>>

Index(q) ==
  /\ At(q, "index")
  /\ Becomes(q, Answered(q, index(q.req.path, disk), Saw(INDEX_PATH, disk), <<>>))
  /\ UNCHANGED <<Process, disk>>

Favicon(q) ==
  /\ At(q, "favicon")
  /\ Becomes(q, Answered(q, favicon(q.req.path, disk),
                         Saw(ICO_PATH, disk) \cup
                           (IF Exists(ICO_PATH, disk) THEN {}
                            ELSE FallbackSaw(q.req.path, disk)),
                         <<>>))
  /\ UNCHANGED <<Process, disk>>

DonateInvalid(q) ==
  /\ At(q, "donate")
  /\ ValidationErrors(q.req.body) # <<>>
  /\ Becomes(q, Answered(q, JSONResponse(422, ErrorsBody(ValidationErrors(q.req.body))),
                         {}, <<>>))
  /\ UNCHANGED <<Process, disk>>

\* The handler reads the clock twice; the clock may move in between.
Donate(q) ==
  /\ At(q, "donate")
  /\ ValidationErrors(q.req.body) = <<>>
  /\ \E t1 \in Clock : \E t2 \in Clock :
       /\ t1 <= t2
       /\ Becomes(q, Answered(q, donate(DonatePayload(q.req.body), t1, t2), {}, <<t1, t2>>))
  /\ UNCHANGED <<Process, disk>>

MethodNotAllowed(q) ==
  /\ At(q, "method_not_allowed")
  /\ Becomes(q, Answered(q, HTTPException(405, "Method Not Allowed", q.req.path, disk),
                         {}, <<>>))
  /\ UNCHANGED <<Process, disk>>

RedirectSlashes(q) ==
  /\ At(q, "redirect_slashes")
  /\ Becomes(q, Answered(q, Response(307, "", RedirectBody(ToggleSlash(q.req.path))),
                         {}, <<>>))
  /\ UNCHANGED <<Process, disk>>

NotFound(q) ==
  /\ At(q, "not_found")
  /\ Becomes(q, Answered(q, HTTPException(404, "Not Found", q.req.path, disk),
                         FallbackSaw(q.req.path, disk), <<>>))
  /\ UNCHANGED <<Process, disk>>

NoCacheMiddleware(q) ==
  /\ q.stage = "inner"
  /\ Becomes(q, [q EXCEPT !.stage = "sent", !.resp = no_cache_middleware(@)])
  /\ UNCHANGED <<Process, disk>>

\* An exception that left the application passes the no-cache middleware
\* and is answered by the server-error middleware around it.
ServerError(q) ==
  /\ q.stage = "raised"
  /\ Becomes(q, [q EXCEPT !.stage = "sent",
                          !.resp = Response(500, "text/plain",
                                            TextBody("Internal Server Error"))])
  /\ UNCHANGED <<Process, disk>>

Deliver(q) ==
  /\ q.stage = "sent"
  /\ inflight' = inflight (-) SetToBag({q})
  /\ UNCHANGED <<Process, disk>>

(***************************************************************************)
(* The environment.                                                        *)
(***************************************************************************)
CreateFile(f) ==
  /\ f \notin disk
  /\ disk' = disk \cup {f}
  /\ UNCHANGED <<Process, inflight>>

RemoveFile(f) ==
  /\ f \in disk
  /\ disk' = disk \ {f}
  /\ UNCHANGED <<Process, inflight>>

Environment ==
  \/ \E f \in Files : CreateFile(f)
  \/ \E f \in Files : RemoveFile(f)

Step(requests, limit) ==
  \/ \E r \in requests : Receive(r, limit)
  \/ \E q \in InFlight : Preflight(q)
  \/ \E q \in InFlight : Docs(q)
  \/ \E q \in InFlight : Index(q)
  \/ \E q \in InFlight : Favicon(q)
  \/ \E q \in InFlight : DonateInvalid(q)
  \/ \E q \in InFlight : Donate(q)
  \/ \E q \in InFlight : MethodNotAllowed(q)
  \/ \E q \in InFlight : RedirectSlashes(q)
  \/ \E q \in InFlight : NotFound(q)
  \/ \E q \in InFlight : NoCacheMiddleware(q)
  \/ \E q \in InFlight : ServerError(q)
  \/ \E q \in InFlight : Deliver(q)
  \/ Environment

\* One request at a time, over every request of the model.
Next == Step(Requests, 1)

\* Up to NReq requests at once, over a request for every step.
NextConc == Step(ConcRequests, NReq)

Spec == Init /\ [][Next]_vars

SpecConc == InitConc /\ [][NextConc]_vars

(***************************************************************************)
(* Vocabulary of the properties.                                           *)
(***************************************************************************)
AnsweredRequests == { q \in InFlight : q.stage \in {"inner", "sent"} }

SentRequests == { q \in InFlight : q.stage = "sent" }

SawFile(q, p, found) == <<Segments(p), found>> \in q.saw

Same(resp, expected) ==
  /\ resp.status = expected.status
  /\ resp.media = expected.media
  /\ resp.body = expected.body

NotFoundJson == JSONResponse(404, DetailBody("Not Found"))
Shell == FileResponse(INDEX_PATH, "text/html")
ShellMissingJson == JSONResponse(500, DetailBody("index.html not found"))

IsFallbackOutcome(resp) ==
  Same(resp, NotFoundJson) \/ Same(resp, Shell) \/ Same(resp, ShellMissingJson)

\* The request ended in a NotFound condition: no route matched, or the
\* favicon handler raised it.
EndedNotFound(q) ==
  \/ Target(q.req) = "not_found"
  \/ Target(q.req) = "favicon" /\ SawFile(q, ICO_PATH, FALSE)

\* C1: a request that ended in a NotFound condition for path p gets 404 JSON
\* {detail: "Not Found"} when something exists at p under the project root,
\* else the shell as 200 text/html when the shell exists, else 500 JSON
\* {detail: "index.html not found"}; nothing else.
C1_FallbackDecides ==
  \A q \in AnsweredRequests :
    EndedNotFound(q) =>
      /\ SawFile(q, LStrip(q.req.path), TRUE) => Same(q.resp, NotFoundJson)
      /\ SawFile(q, LStrip(q.req.path), FALSE) /\ SawFile(q, INDEX_PATH, TRUE)
           => Same(q.resp, Shell)
      /\ SawFile(q, LStrip(q.req.path), FALSE) /\ SawFile(q, INDEX_PATH, FALSE)
           => Same(q.resp, ShellMissingJson)
      /\ IsFallbackOutcome(q.resp)
      /\ \E found \in BOOLEAN : SawFile(q, LStrip(q.req.path), found)

C1_Witness ==
  \E q \in SentRequests :
    /\ q.req.path = AboutPath
    /\ EndedNotFound(q)
    /\ SawFile(q, LStrip(q.req.path), TRUE)
    /\ INDEX_PATH \in disk
    /\ Same(q.resp, NotFoundJson)

\* C2: GET /favicon.ico with the icon absent ends in HTTP 404 and never in the
\* index shell, whether or not the shell exists.
C2_FaviconMissIs404 ==
  \A q \in AnsweredRequests :
    Target(q.req) = "favicon" /\ SawFile(q, ICO_PATH, FALSE) =>
      q.resp.status = 404 /\ q.resp.body.kind # "file"

\* C3: a POST /donate whose amount is zero, negative or no number (null, or a
\* string that spells none) is rejected with a validation error before the
\* handler body runs: the clock is never read, no receipt is built and the
\* response has no receipt field.
ZeroNegativeOrNonNumeric(a) ==
  \/ a.kind \in {"num", "numstr"} /\ a.val <= 0
  \/ a.kind = "ninf"
  \/ a.kind \in {"str", "null"}

IsReceipt(resp) == resp.body.kind = "receipt"

Bindings == { <<"GET", RootPath>>, <<"GET", FaviconPath>>, <<"POST", DonatePath>> }

AppPaths == { RootPath, FaviconPath, DonatePath }

FrameworkPaths ==
  { <<"/", "openapi.json">>, DocsPath, <<"/", "docs", "/", "oauth2-redirect">>,
    <<"/", "redoc">> }

BoundPaths == AppPaths \cup FrameworkPaths

IsPreflight(r) == r.method = "OPTIONS" /\ r.preflight

WithTrailingSlashes(path) ==
  path # RootPath /\ path[Len(path)] = "/" /\ RStrip(path) \in BoundPaths

HasNoCache(resp) == NoCacheHeaders \subseteq resp.headers

IsProductionValue(e) == e.set /\ Lower(e.val) = Production

C5_NoCacheOnEveryResponse ==
  \A q \in SentRequests : HasNoCache(q.resp) <=> ~IsProductionValue(environ)

\* C6: the receipt's name is the submitted name when given and not empty, else
\* "Anonymous"; its message is the submitted message when given and not
\* empty, else "".
Given(v) == v.kind = "str" /\ v.len > 0

C6_Defaulting ==
  \A q \in AnsweredRequests :
    IsReceipt(q.resp) =>
      /\ q.resp.body.name = (IF Given(q.req.body.name) THEN q.req.body.name ELSE Anonymous)
      /\ q.resp.body.message =
           (IF Given(q.req.body.message) THEN q.req.body.message ELSE EmptyText)

C6_Witness ==
  \E q \in SentRequests :
    /\ IsReceipt(q.resp)
    /\ q.req.body.name = EmptyText
    /\ q.req.body.message = None
    /\ q.resp.body.name = Anonymous
    /\ q.resp.body.message = EmptyText

\* C7: in every receipt the digits of receipt_id are the whole Unix seconds of
\* the instant the timestamp field shows (UTC, with a trailing Z).
C7_ReceiptIdMatchesTimestamp ==
  \A q \in AnsweredRequests :
    IsReceipt(q.resp) =>
      /\ q.resp.body.receipt_id.prefix = "BF-"
      /\ q.resp.body.timestamp.suffix = "Z"
      /\ q.resp.body.receipt_id.digits = q.resp.body.timestamp.sec

\* C8: GET / answers 200 text/html with the shell when the shell exists and
\* 500 when it is missing, never 404, and the 500 is the handler's own, not
\* the fallback's.
C8_IndexServesShellOr500 ==
  \A q \in AnsweredRequests :
    Target(q.req) = "index" =>
      /\ SawFile(q, INDEX_PATH, TRUE) => Same(q.resp, Shell)
      /\ SawFile(q, INDEX_PATH, FALSE)
           => Same(q.resp, JSONResponse(500, DetailBody("index.html not found on server")))
      /\ q.resp.status \in {200, 500}
      /\ q.saw = Saw(INDEX_PATH, {}) \/ q.saw = Saw(INDEX_PATH, {INDEX_PATH})

C8_Witness ==
  \E q \in SentRequests :
    /\ Target(q.req) = "index"
    /\ SawFile(q, INDEX_PATH, FALSE)
    /\ q.resp.status = 500

\* C9: POST /donate answers 200 with a receipt only if the amount is present
\* and a finite number greater than zero, the name is at most 200 long and the
\* message at most 500; every other body gets the validation error, and no
\* request fails in another way.
SatisfiesRules(body) ==
  /\ body.kind = "json"
  /\ CanFloat(body.amount) /\ IsFinite(float(body.amount))
  /\ float(body.amount).val > 0
  /\ body.name.kind = "str" => body.name.len <= MaxNameLen
  /\ body.message.kind = "str" => body.message.len <= MaxMessageLen

C9_ReceiptOrValidationError ==
  \A q \in SentRequests :
    Target(q.req) = "donate" =>
      IF SatisfiesRules(q.req.body)
        THEN q.resp.status = 200 /\ IsReceipt(q.resp)
        ELSE q.resp.status = 422 /\ q.resp.body.kind = "errors"

\* C10: requests share no mutable state.  Two requests in flight that are the
\* same request and read the same of the disk and of the clock have the same
\* response, whatever ran in between; and a step of a request writes neither
\* the startup configuration nor the disk.
C10_SameInputsSameResponse ==
  \A q1 \in AnsweredRequests : \A q2 \in AnsweredRequests :
    /\ q1.stage = q2.stage
    /\ q1.req = q2.req
    /\ q1.saw = q2.saw
    /\ q1.reads = q2.reads
    => q1.resp = q2.resp

C10_HandlersWriteNothingShared ==
  /\ inflight' # inflight => disk' = disk
  /\ Process' = Process

C10_Isolation == []C10_SameInputsSameResponse /\ [][C10_HandlersWriteNothingShared]_vars

C10_Witness ==
  \E q1 \in SentRequests : \E q2 \in SentRequests :
    /\ q1.req = Req("GET", AboutPath, FALSE, NoBody)
    /\ q2.req = q1.req
    /\ Same(q1.resp, NotFoundJson)
    /\ Same(q2.resp, Shell)

====
